---- MODULE Spec2Model ----
(***************************************************************************)
(* Model of src/main.py: GPUInfo (device enumeration and the per-tick      *)
(* getStatus sampler), GracefulKiller (signal flag) and the main loop that *)
(* accumulates samples and dumps them to status.json on exit.              *)
(*                                                                         *)
(* The pynvml library is the environment.  Its answers at construction     *)
(* (nvmlInit, device count, device names) are fixed in Init; each metric   *)
(* query made by getStatus picks its outcome (a value or an exception)     *)
(* when it is made.  Device handle lookup, the driver version query and    *)
(* the log calls are taken to succeed and are not part of the state.       *)
(* Python lists are sequences: device index i is position i + 1.           *)
(***************************************************************************)
EXTENDS Integers, Sequences, FiniteSets, TLC

\* ---------------------------------------------------------------- bounds
MaxDevices == 2
MaxTicks == 2
\* GPUInfo objects constructed in one process (SpecMulti only).
MaxInstances == 2

\* ------------------------------------------------- environment (library)
\* Utilization percentages the library may report for a device (0 is a real
\* reading, of an idle device).
UtilValuesOf(d) == IF d = 0 THEN {0, 80} ELSE {80 - 10 * d}
\* Temperatures the library may report for a device.
TempValuesOf(d) == {45 + d}
\* memory.total of a device: fixed per device.
VramTotalOf(d) == IF d = 0 THEN 2 ELSE IF d = 1 THEN 3 ELSE 8
\* memory.used values the library may report for a device.  The percentages
\* are 50.0, 33.33333333333333 (which is rounded) and 37.5.
VramUsedOf(d) == IF d < 2 THEN {1} ELSE {3}

Failure == [ok |-> FALSE, val |-> 0]
UtilOutcomes(d) == {[ok |-> TRUE, val |-> v] : v \in UtilValuesOf(d)} \cup {Failure}
TempOutcomes(d) == {[ok |-> TRUE, val |-> v] : v \in TempValuesOf(d)} \cup {Failure}
VramOutcomes(d) == {[ok |-> TRUE, val |-> v] : v \in VramUsedOf(d)} \cup {Failure}

\* What nvmlDeviceGetName does for a device: returns a str, returns bytes,
\* raises UnicodeDecodeError, or raises NVMLError.  Text is a sequence of
\* code points.  The bytes are "G", the two bytes of U+00E9, the byte 255
\* (never valid in UTF-8) and "P".
NameOutcomes ==
    { [kind |-> "str", val |-> <<71, 80, 85>>],
      [kind |-> "bytes", val |-> <<71, 195, 169, 255, 80>>],
      [kind |-> "unicode_error", val |-> <<>>],
      [kind |-> "nvml_error", val |-> <<>>] }

\* "Unknown GPU (decoding error)"
UnknownGPUDecodingError ==
    <<85, 110, 107, 110, 111, 119, 110, 32, 71, 80, 85, 32, 40, 100, 101,
      99, 111, 100, 105, 110, 103, 32, 101, 114, 114, 111, 114, 41>>

Signals == {"SIGINT", "SIGTERM"}

\* status.json before it is written.
NoFile == [exists |-> FALSE, content |-> <<>>]

VARIABLES
    lib,                \* the library's answers at construction
    pc,                 \* position of the main program
    kill_now,           \* GracefulKiller.kill_now
    instances,          \* number of GPUInfo objects constructed so far
    pynvmlLoaded, cuda, cudaDevicesFound,
    switchGPU, switchVRAM, switchTemperature,
    gpus, gpusUtilization, gpusVRAM, gpusTemperature,
    deviceIndex,        \* getStatus: loop variable
    cur,                \* getStatus: gpuUtilization, gpuTemperature, vram*
    gpusLocal,          \* getStatus: the local list gpus
    status,             \* main: the value returned by getStatus
    results,            \* main: the sample history
    stdout,             \* what was printed, in order
    file,               \* content of status.json, NoFile while absent
    writes,             \* number of times status.json was written
    returned,           \* history: the values returned by getStatus, in order
    calls,              \* history: the metric queries made, in order
    tick,               \* history: number of getStatus calls started
    lenAtSignal         \* history: Len(results) at the first signal, -1 before

gpuVars == <<instances, pynvmlLoaded, cuda, cudaDevicesFound, gpus>>
flagVars == <<switchGPU, switchVRAM, switchTemperature,
              gpusUtilization, gpusVRAM, gpusTemperature>>
localVars == <<deviceIndex, cur, gpusLocal>>
mainVars == <<status, results, stdout, file, writes>>
histVars == <<returned, calls, tick>>
vars == <<lib, pc, kill_now, gpuVars, flagVars, localVars, mainVars,
          histVars, lenAtSignal>>

\* ------------------------------------------------------- pure operators
\* UTF-8: the number of continuation bytes a lead byte announces; 0 for a
\* byte that cannot start a multi-byte character (0x80..0xC1, 0xF5..0xFF).
Utf8Need(lead) ==
    IF lead >= 194 /\ lead <= 223 THEN 1
    ELSE IF lead >= 224 /\ lead <= 239 THEN 2
    ELSE IF lead >= 240 /\ lead <= 244 THEN 3
    ELSE 0

\* Whether b may be the j-th byte after the lead byte.  The second byte is
\* narrowed after 0xE0 and 0xF0 (no overlong forms), after 0xED (no
\* surrogates) and after 0xF4 (nothing above U+10FFFF).
Utf8ContOk(lead, j, b) ==
    IF j = 1 /\ lead = 224 THEN b >= 160 /\ b <= 191
    ELSE IF j = 1 /\ lead = 237 THEN b >= 128 /\ b <= 159
    ELSE IF j = 1 /\ lead = 240 THEN b >= 144 /\ b <= 191
    ELSE IF j = 1 /\ lead = 244 THEN b >= 128 /\ b <= 143
    ELSE b >= 128 /\ b <= 191

\* The number of bytes after the lead byte bs[1] that continue it validly,
\* at most Utf8Need of them.
Utf8Good(bs) ==
    LET need == Utf8Need(bs[1])
        ok(j) == j + 1 <= Len(bs) /\ Utf8ContOk(bs[1], j, bs[j + 1])
    IN IF need >= 1 /\ ok(1)
       THEN IF need >= 2 /\ ok(2)
            THEN IF need >= 3 /\ ok(3) THEN 3 ELSE 2
            ELSE 1
       ELSE 0

\* The code point of the complete multi-byte character at the head of bs.
Utf8CodePoint(bs) ==
    LET need == Utf8Need(bs[1]) IN
    IF need = 1 THEN (bs[1] - 192) * 64 + (bs[2] - 128)
    ELSE IF need = 2
    THEN (bs[1] - 224) * 4096 + (bs[2] - 128) * 64 + (bs[3] - 128)
    ELSE (bs[1] - 240) * 262144 + (bs[2] - 128) * 4096
         + (bs[3] - 128) * 64 + (bs[4] - 128)

RECURSIVE DecodeIgnore(_)
\* bytes.decode("utf-8", errors="ignore"): ASCII bytes and complete
\* multi-byte characters are decoded to their code points; a byte that
\* cannot start a character is dropped, and so is a lead byte together
\* with the valid continuation bytes of a character that is cut short.
DecodeIgnore(bs) ==
    IF bs = <<>> THEN <<>>
    ELSE IF bs[1] < 128 THEN <<bs[1]>> \o DecodeIgnore(Tail(bs))
    ELSE LET need == Utf8Need(bs[1])
             good == Utf8Good(bs)
         IN IF need > 0 /\ good = need
            THEN <<Utf8CodePoint(bs)>>
                 \o DecodeIgnore(SubSeq(bs, need + 2, Len(bs)))
            ELSE DecodeIgnore(SubSeq(bs, good + 2, Len(bs)))

\* The name stored for a device whose name read did not raise NVMLError.
GpuName(o) ==
    IF o.kind = "unicode_error" THEN UnknownGPUDecodingError
    ELSE IF o.kind = "bytes" THEN DecodeIgnore(o.val)
    ELSE o.val

\* The dict appended to gpus for the device of index i.
DeviceEntry_OneBased(i, name) == [index |-> i + 1, name |-> name]
DeviceEntry(i, name) == [index |-> i, name |-> name]

\* Number of devices the enumeration loop completes: all n, or those before
\* the first device whose name read raises NVMLError (which is not caught).
Enumerated(names, n) ==
    IF \E i \in 0..(n - 1) : names[i].kind = "nvml_error"
    THEN CHOOSE i \in 0..(n - 1) :
            /\ names[i].kind = "nvml_error"
            /\ \A j \in 0..(i - 1) : names[j].kind # "nvml_error"
    ELSE n

\* print(f"UnicodeDecodeError: {e}"): the line written to stdout for the
\* device of index i; the message of the exception is the library's.
DecodeErrorLine(i) == [line |-> "UnicodeDecodeError", device |-> i]

\* The lines printed while the first k devices are enumerated, in device
\* order: one for each device whose name read raised UnicodeDecodeError.
DecodeErrorLines(names, k) ==
    LET raised == SelectSeq([i \in 1..k |-> i - 1],
                            LAMBDA i : names[i].kind = "unicode_error")
    IN [j \in 1..Len(raised) |-> DecodeErrorLine(raised[j])]

\* self.pynvmlLoaded after the try/except around nvmlInit().
LoadedAfterInit_AlwaysTrue(ok) == TRUE
LoadedAfterInit(ok) == ok

\* Condition of the enumeration branch of __init__.
EnumerationRuns(loaded, count) == loaded /\ count > 0

\* Condition of the device loop of getStatus.
StatusRuns(loaded, c) == loaded /\ c

\* End of range(cudaDevicesFound).
RangeDone_OffByOne(i, n) == i >= n - 1
RangeDone(i, n) == i >= n

\* The except branch of the utilization query on device d: the new
\* switchGPU and gpusUtilization, and where getStatus continues.
OnUtilizationFailure_NoDisable(sw, arr, d) ==
    [sw |-> sw, arr |-> arr, pc |-> "query_vram"]
OnUtilizationFailure(sw, arr, d) ==
    [sw |-> FALSE, arr |-> arr, pc |-> "query_vram"]

\* The except branch of the temperature query on device d.
OnTemperatureFailure_PerDevice(sw, arr, d) ==
    [sw |-> sw, arr |-> [arr EXCEPT ![d + 1] = FALSE], pc |-> "append_gpu"]
OnTemperatureFailure(sw, arr, d) ==
    [sw |-> FALSE, arr |-> arr, pc |-> "append_gpu"]

\* A failed VRAM query: there is no except branch, switchVRAM is kept and
\* the exception leaves getStatus and the main program.
OnVramFailure_Guarded(sw) == [sw |-> FALSE, pc |-> "query_temp"]
OnVramFailure_Flush(sw) == [sw |-> sw, pc |-> "write"]
OnVramFailure(sw) == [sw |-> sw, pc |-> "crashed"]

\* results.append(status)
ResultsAppend_Front(rs, st) == <<st>> \o rs
ResultsAppend_KeepLast(rs, st) == <<st>>
ResultsAppend(rs, st) == Append(rs, st)

\* ------------------------------------------------------- Python numbers
\* A Python number is an int or a float.  A float is an IEEE 754 double,
\* held the way float.hex() writes it: hex is the leading digit followed by
\* the hexadecimal digits after the point (at most 13, trailing zeros left
\* out) and exp is the power of two, so 12.5 = 0x1.9p+3 is hex <<1, 9>>
\* with exp 3, and 0.0 = 0x0.0p+0 is hex <<0>> with exp 0.
PyInt(i) == [int |-> i]
PyFloat(hex, exp) == [hex |-> hex, exp |-> exp]
IsFloat(x) == "hex" \in DOMAIN x

\* Bits of the double significand.
MantBits == 53
\* Long arithmetic is done on digits of base 256, most significant first.
DigitBits == 8
DigitBase == 256
\* Integers here are below 2^31; a divisor is below 2^23, so that a
\* remainder times DigitBase stays below 2^31.
IntWidth == 31
\* Fraction digits of a quotient: enough for the leading zeros of the
\* smallest quotient (below 23) and MantBits + 1 significant bits.
FracDigits == 10

\* bits without its leading zeros.
StripBits(bits) ==
    IF \A i \in DOMAIN bits : bits[i] = 0 THEN <<>>
    ELSE SubSeq(bits, CHOOSE i \in DOMAIN bits :
                          bits[i] = 1 /\ \A j \in 1..(i - 1) : bits[j] = 0,
                Len(bits))

\* A digit string without its trailing zeros.
TrimZeros(ds) ==
    IF \A i \in DOMAIN ds : ds[i] = 0 THEN <<>>
    ELSE SubSeq(ds, 1, CHOOSE i \in DOMAIN ds :
                           ds[i] # 0 /\ \A j \in (i + 1)..Len(ds) : ds[j] = 0)

\* The float whose significant bits are bits (first bit 1, at most MantBits
\* and one carried bit, which is then 0), the first of power exp.
FloatOfBits(bits, exp) ==
    LET n == (Len(bits) + 2) \div 4
        b(i) == IF i <= Len(bits) THEN bits[i] ELSE 0
        frac == [j \in 1..n |-> 8 * b(4 * j - 2) + 4 * b(4 * j - 1)
                                  + 2 * b(4 * j) + b(4 * j + 1)]
    IN PyFloat(<<1>> \o TrimZeros(frac), exp)

\* The significant bits of a float that is not 0.0.
BitsOfFloat(x) ==
    <<1>> \o [i \in 1..(4 * (Len(x.hex) - 1)) |->
                 (x.hex[(i - 1) \div 4 + 2] \div 2 ^ (3 - ((i - 1) % 4))) % 2]

\* The binary digits of n >= 0, most significant first.
IntBits(n) == StripBits([i \in 1..IntWidth |-> (n \div 2 ^ (IntWidth - i)) % 2])

\* bits + 1; one bit longer when bits are all ones.
IncBits(bits) ==
    IF \A i \in DOMAIN bits : bits[i] = 1
    THEN <<1>> \o [i \in DOMAIN bits |-> 0]
    ELSE LET z == CHOOSE i \in DOMAIN bits :
                      bits[i] = 0 /\ \A j \in (i + 1)..Len(bits) : bits[j] = 1
         IN [i \in DOMAIN bits |-> IF i < z THEN bits[i] ELSE IF i = z THEN 1 ELSE 0]

\* The bits of a digit string.
BitsOfDigits(ds) ==
    [i \in 1..(DigitBits * Len(ds)) |->
        (ds[(i - 1) \div DigitBits + 1]
            \div 2 ^ (DigitBits - 1 - ((i - 1) % DigitBits))) % 2]

\* The digits of a bit string.
DigitsOfBits(bits) ==
    LET n == (Len(bits) + DigitBits - 1) \div DigitBits
        padded == [i \in 1..(DigitBits * n - Len(bits)) |-> 0] \o bits
        b(j, i) == padded[DigitBits * (j - 1) + i]
    IN [j \in 1..n |-> 128 * b(j, 1) + 64 * b(j, 2) + 32 * b(j, 3) + 16 * b(j, 4)
                        + 8 * b(j, 5) + 4 * b(j, 6) + 2 * b(j, 7) + b(j, 8)]

RECURSIVE MulDigits(_, _, _)
\* The digits of ds * k + carry.
MulDigits(ds, k, carry) ==
    IF ds = <<>>
    THEN (IF carry = 0 THEN <<>>
          ELSE Append(MulDigits(ds, k, carry \div DigitBase), carry % DigitBase))
    ELSE LET v == ds[Len(ds)] * k + carry IN
         Append(MulDigits(SubSeq(ds, 1, Len(ds) - 1), k, v \div DigitBase),
                v % DigitBase)

RECURSIVE QuotDigits(_, _, _, _)
\* Long division: the digits acc followed by the next n digits of r / d
\* (r < d), and the remainder left.
QuotDigits(r, d, acc, n) ==
    IF n = 0 THEN [digits |-> acc, rem |-> r]
    ELSE QuotDigits((r * DigitBase) % d, d,
                    Append(acc, (r * DigitBase) \div d), n - 1)

\* Round to nearest, ties to even: the double nearest to the number whose
\* bits are bits (first bit 1, of power exp) followed by a nonzero tail
\* exactly when sticky.
RoundBits(bits, sticky, exp) ==
    IF Len(bits) <= MantBits THEN FloatOfBits(bits, exp)
    ELSE LET keep == SubSeq(bits, 1, MantBits)
             tail == sticky \/ \E i \in (MantBits + 2)..Len(bits) : bits[i] = 1
             up == bits[MantBits + 1] = 1 /\ (tail \/ keep[MantBits] = 1)
             kept == IF up THEN IncBits(keep) ELSE keep
         IN FloatOfBits(kept, IF Len(kept) > MantBits THEN exp + 1 ELSE exp)

\* a / b for ints a >= 0 and b > 0: the correctly rounded quotient.
IntTrueDiv(a, b) ==
    IF a = 0 THEN PyFloat(<<0>>, 0)
    ELSE LET whole == IntBits(a \div b)
             q == QuotDigits(a % b, b, <<>>, FracDigits)
             all == whole \o BitsOfDigits(q.digits)
             sig == StripBits(all)
         IN RoundBits(sig, q.rem # 0, Len(whole) - 1 - (Len(all) - Len(sig)))

\* x * k for a float x >= 0 and an int k >= 0 (k is exact as a float).
FloatMulInt(x, k) ==
    IF x.hex[1] = 0 \/ k = 0 THEN PyFloat(<<0>>, 0)
    ELSE LET mant == BitsOfFloat(x)
             prod == StripBits(BitsOfDigits(MulDigits(DigitsOfBits(mant), k, 0)))
         IN RoundBits(prod, FALSE, x.exp - (Len(mant) - 1) + (Len(prod) - 1))

\* vramUsed / vramTotal * 100, a float.
VramPercent(used, total) == FloatMulInt(IntTrueDiv(used, total), 100)

\* VramPercent of every reading the library can give, by device (worked out
\* once for each reading).
VramPercentOf ==
    [d \in 0..(MaxDevices - 1) |->
        [used \in VramUsedOf(d) |-> VramPercent(used, VramTotalOf(d))]]

\* ------------------------------------------------------------- json text
\* The text written by json.dump is a sequence of tokens (white space and
\* indentation left out): punctuation, strings, ints and floats.  A float
\* is written in the shortest form that reads back as the same double, so
\* its token stands for the double.
P(c) == [t |-> "punct", s |-> c]
S(c) == [t |-> "str", s |-> c]
N(i) == [t |-> "int", n |-> i]
F(x) == [t |-> "float", x |-> x]

\* One dict of the gpus list, keys in insertion order.  vram_used_percent is
\* a float when the VRAM query ran and the int 0 otherwise.
DumpEntry(e) ==
    <<P("{"),
      S("gpu_utilization"), P(":"), N(e.gpu_utilization), P(","),
      S("gpu_temperature"), P(":"), N(e.gpu_temperature), P(","),
      S("vram_total"), P(":"), N(e.vram_total), P(","),
      S("vram_used"), P(":"), N(e.vram_used), P(","),
      S("vram_used_percent"), P(":"),
      IF IsFloat(e.vram_used_percent) THEN F(e.vram_used_percent)
      ELSE N(e.vram_used_percent.int),
      P("}")>>

RECURSIVE DumpEntries(_)
DumpEntries(es) ==
    IF es = <<>> THEN <<>>
    ELSE IF Len(es) = 1 THEN DumpEntry(es[1])
    ELSE DumpEntry(es[1]) \o <<P(",")>> \o DumpEntries(Tail(es))

DumpSample(r) ==
    <<P("{"), S("device_type"), P(":"), S(r.device_type), P(","),
      S("gpus"), P(":"), P("[")>> \o DumpEntries(r.gpus) \o <<P("]"), P("}")>>

RECURSIVE DumpSamples(_)
DumpSamples(rs) ==
    IF rs = <<>> THEN <<>>
    ELSE IF Len(rs) = 1 THEN DumpSample(rs[1])
    ELSE DumpSample(rs[1]) \o <<P(",")>> \o DumpSamples(Tail(rs))

\* json.dump(results, f, indent=4)
JsonDump(rs) == <<P("[")>> \o DumpSamples(rs) \o <<P("]")>>

\* Reading the text back (json.load): the value of key k in the dict that
\* starts at token i and has cnt members.
Member(toks, i, cnt, k) ==
    LET j == CHOOSE j \in 0..(cnt - 1) : toks[i + 1 + 4 * j] = S(k)
    IN toks[i + 3 + 4 * j]

LoadEntry(toks, i) ==
    [gpu_utilization |-> Member(toks, i, 5, "gpu_utilization").n,
     gpu_temperature |-> Member(toks, i, 5, "gpu_temperature").n,
     vram_total |-> Member(toks, i, 5, "vram_total").n,
     vram_used |-> Member(toks, i, 5, "vram_used").n,
     vram_used_percent |->
         LET tok == Member(toks, i, 5, "vram_used_percent") IN
         IF tok.t = "float" THEN tok.x ELSE PyInt(tok.n)]

RECURSIVE LoadEntries(_, _, _)
\* The list elements from token i on, up to the closing bracket; the result
\* carries the position after the bracket.
LoadEntries(toks, i, acc) ==
    IF toks[i] = P("]") THEN [val |-> acc, next |-> i + 1]
    ELSE IF toks[i] = P(",") THEN LoadEntries(toks, i + 1, acc)
    ELSE LoadEntries(toks, i + 21, Append(acc, LoadEntry(toks, i)))

RECURSIVE LoadSamples(_, _, _)
LoadSamples(toks, i, acc) ==
    IF toks[i] = P("]") THEN [val |-> acc, next |-> i + 1]
    ELSE IF toks[i] = P(",") THEN LoadSamples(toks, i + 1, acc)
    ELSE LET es == LoadEntries(toks, i + 8, <<>>) IN
         LoadSamples(toks, es.next + 1,
                     Append(acc, [device_type |-> toks[i + 3].s, gpus |-> es.val]))

JsonLoad(toks) == LoadSamples(toks, 2, <<>>).val

Defaults ==
    [gpu_utilization |-> -1, gpu_temperature |-> -1, vram_total |-> -1,
     vram_used |-> -1, vram_used_percent |-> PyInt(-1)]
Zeros_KeepDefaults == Defaults
Zeros ==
    [gpu_utilization |-> 0, gpu_temperature |-> 0, vram_total |-> 0,
     vram_used |-> 0, vram_used_percent |-> PyInt(0)]

Call(d, m, o) == [tick |-> tick, dev |-> d, metric |-> m, ok |-> o.ok, val |-> o.val]

\* ------------------------------------------------------------------ Init
Init ==
    /\ \E ok \in BOOLEAN, n \in 0..MaxDevices :
         \E names \in [0..(n - 1) -> NameOutcomes] :
            lib = [initOk |-> ok, count |-> n, names |-> names]
    /\ pc = "construct"
    /\ kill_now = FALSE
    /\ instances = 0
    /\ pynvmlLoaded = FALSE /\ cuda = FALSE /\ cudaDevicesFound = 0
    /\ switchGPU = TRUE /\ switchVRAM = TRUE /\ switchTemperature = TRUE
    /\ gpus = <<>> /\ gpusUtilization = <<>> /\ gpusVRAM = <<>>
    /\ gpusTemperature = <<>>
    /\ deviceIndex = 0 /\ cur = Defaults /\ gpusLocal = <<>>
    /\ status = [device_type |-> "", gpus |-> <<>>]
    /\ results = <<>> /\ stdout = <<>> /\ file = NoFile /\ writes = 0
    /\ returned = <<>> /\ calls = <<>> /\ tick = 0
    /\ lenAtSignal = -1

\* --------------------------------------------------------------- actions
\* A handler that also abandons the statement it interrupts.
Signal_Interrupting ==
    /\ pc \notin {"done", "crashed"}
    /\ \E sig \in Signals : kill_now' = TRUE
    /\ lenAtSignal' = IF lenAtSignal = -1 THEN Len(results) ELSE lenAtSignal
    /\ pc' = IF pc = "construct" THEN pc ELSE "write"
    /\ UNCHANGED <<lib, gpuVars, flagVars, localVars, mainVars, histVars>>

\* A handler that also dumps the history.
Signal_Flushing ==
    /\ pc \notin {"done", "crashed"}
    /\ \E sig \in Signals : kill_now' = TRUE
    /\ lenAtSignal' = IF lenAtSignal = -1 THEN Len(results) ELSE lenAtSignal
    /\ file' = [exists |-> TRUE, content |-> JsonDump(results)]
    /\ UNCHANGED <<lib, pc, gpuVars, flagVars, localVars, status, results,
                   stdout, writes, histVars>>

\* GracefulKiller.exit_gracefully, run when a signal is delivered.
Signal ==
    /\ pc \notin {"done", "crashed"}
    /\ \E sig \in Signals : kill_now' = TRUE
    /\ lenAtSignal' = IF lenAtSignal = -1 THEN Len(results) ELSE lenAtSignal
    /\ UNCHANGED <<lib, pc, gpuVars, flagVars, localVars, mainVars, histVars>>

\* GPUInfo.__init__.  gpus and the three flag lists are class attributes
\* that are never rebound: the appends extend the lists of the class.  The
\* except branch of the name read prints one line per device it handles.
GPUInfoInit ==
    /\ pc = "construct"
    /\ instances' = instances + 1
    /\ pynvmlLoaded' = LoadedAfterInit(lib.initOk)
    /\ IF EnumerationRuns(pynvmlLoaded', lib.count)
       THEN LET k == Enumerated(lib.names, lib.count) IN
            /\ cudaDevicesFound' = lib.count
            /\ gpus' = gpus \o [i \in 1..k |->
                          DeviceEntry(i - 1, GpuName(lib.names[i - 1]))]
            /\ gpusUtilization' = gpusUtilization \o [i \in 1..k |-> TRUE]
            /\ gpusVRAM' = gpusVRAM \o [i \in 1..k |-> TRUE]
            /\ gpusTemperature' = gpusTemperature \o [i \in 1..k |-> TRUE]
            /\ stdout' = stdout \o DecodeErrorLines(lib.names, k)
            /\ cuda' = (k = lib.count)
            /\ pc' = IF k = lib.count THEN "loop_test" ELSE "crashed"
       ELSE /\ UNCHANGED <<cuda, cudaDevicesFound, gpus, gpusUtilization,
                           gpusVRAM, gpusTemperature, stdout>>
            /\ pc' = "loop_test"
    /\ UNCHANGED <<lib, kill_now, switchGPU, switchVRAM, switchTemperature,
                   localVars, status, results, file, writes, histVars,
                   lenAtSignal>>

\* A loop test that does not read the flag.
LoopTest_IgnoresFlag ==
    /\ pc = "loop_test"
    /\ Len(results) < MaxTicks /\ pc' = "get_status"
    /\ UNCHANGED <<lib, kill_now, gpuVars, flagVars, localVars, mainVars,
                   histVars, lenAtSignal>>

\* while not killer.kill_now
LoopTest ==
    /\ pc = "loop_test"
    /\ IF kill_now THEN pc' = "write"
       ELSE Len(results) < MaxTicks /\ pc' = "get_status"
    /\ UNCHANGED <<lib, kill_now, gpuVars, flagVars, localVars, mainVars,
                   histVars, lenAtSignal>>

\* A getStatus that retries the disabled metrics in every tick.
GetStatusBegin_Retry ==
    /\ pc = "get_status"
    /\ cur' = Defaults
    /\ gpusLocal' = <<>>
    /\ deviceIndex' = 0
    /\ tick' = tick + 1
    /\ switchGPU' = TRUE /\ switchTemperature' = TRUE
    /\ pc' = IF StatusRuns(pynvmlLoaded, cuda) THEN "dev_loop" ELSE "return"
    /\ UNCHANGED <<lib, kill_now, gpuVars, switchVRAM, gpusUtilization,
                   gpusVRAM, gpusTemperature, mainVars, returned, calls,
                   lenAtSignal>>

\* getStatus: the defaults and the test that guards the device loop.
GetStatusBegin ==
    /\ pc = "get_status"
    /\ cur' = Defaults
    /\ gpusLocal' = <<>>
    /\ deviceIndex' = 0
    /\ tick' = tick + 1
    /\ pc' = IF StatusRuns(pynvmlLoaded, cuda) THEN "dev_loop" ELSE "return"
    /\ UNCHANGED <<lib, kill_now, gpuVars, flagVars, mainVars, returned,
                   calls, lenAtSignal>>

\* getStatus: head of the device loop, handle lookup and the zeroed fields.
DeviceLoop ==
    /\ pc = "dev_loop"
    /\ IF RangeDone(deviceIndex, cudaDevicesFound)
       THEN pc' = "return" /\ UNCHANGED cur
       ELSE pc' = "query_util" /\ cur' = Zeros
    /\ UNCHANGED <<lib, kill_now, gpuVars, flagVars, deviceIndex, gpusLocal,
                   mainVars, histVars, lenAtSignal>>

\* getStatus: GPU utilization.
QueryUtilization ==
    /\ pc = "query_util"
    /\ IF switchGPU /\ gpusUtilization[deviceIndex + 1]
       THEN \E o \in UtilOutcomes(deviceIndex) :
              /\ calls' = Append(calls, Call(deviceIndex, "utilization", o))
              /\ IF o.ok
                 THEN /\ cur' = [cur EXCEPT !.gpu_utilization = o.val]
                      /\ pc' = "query_vram"
                      /\ UNCHANGED <<switchGPU, gpusUtilization>>
                 ELSE LET f == OnUtilizationFailure(switchGPU, gpusUtilization,
                                                    deviceIndex) IN
                      /\ switchGPU' = f.sw
                      /\ gpusUtilization' = f.arr
                      /\ pc' = f.pc
                      /\ UNCHANGED cur
       ELSE /\ UNCHANGED <<calls, cur, switchGPU, gpusUtilization>>
            /\ pc' = "query_vram"
    /\ UNCHANGED <<lib, kill_now, gpuVars, switchVRAM, switchTemperature,
                   gpusVRAM, gpusTemperature, deviceIndex, gpusLocal,
                   mainVars, returned, tick, lenAtSignal>>

\* getStatus: VRAM.  The query is not guarded: an exception leaves getStatus
\* and the main program.
QueryVRAM ==
    /\ pc = "query_vram"
    /\ IF switchVRAM /\ gpusVRAM[deviceIndex + 1]
       THEN \E o \in VramOutcomes(deviceIndex) :
              /\ calls' = Append(calls, Call(deviceIndex, "vram", o))
              /\ IF o.ok
                 THEN /\ cur' = [cur EXCEPT
                                   !.vram_used = o.val,
                                   !.vram_total = VramTotalOf(deviceIndex),
                                   !.vram_used_percent =
                                       VramPercentOf[deviceIndex][o.val]]
                      /\ pc' = "query_temp"
                      /\ UNCHANGED switchVRAM
                 ELSE /\ UNCHANGED cur
                      /\ switchVRAM' = OnVramFailure(switchVRAM).sw
                      /\ pc' = OnVramFailure(switchVRAM).pc
       ELSE /\ UNCHANGED <<calls, cur, switchVRAM>>
            /\ pc' = "query_temp"
    /\ UNCHANGED <<lib, kill_now, gpuVars, switchGPU, switchTemperature,
                   gpusUtilization, gpusVRAM, gpusTemperature, deviceIndex,
                   gpusLocal, mainVars, returned, tick, lenAtSignal>>

\* getStatus: temperature.
QueryTemperature ==
    /\ pc = "query_temp"
    /\ IF switchTemperature /\ gpusTemperature[deviceIndex + 1]
       THEN \E o \in TempOutcomes(deviceIndex) :
              /\ calls' = Append(calls, Call(deviceIndex, "temperature", o))
              /\ IF o.ok
                 THEN /\ cur' = [cur EXCEPT !.gpu_temperature = o.val]
                      /\ pc' = "append_gpu"
                      /\ UNCHANGED <<switchTemperature, gpusTemperature>>
                 ELSE LET f == OnTemperatureFailure(switchTemperature,
                                                    gpusTemperature, deviceIndex) IN
                      /\ switchTemperature' = f.sw
                      /\ gpusTemperature' = f.arr
                      /\ pc' = f.pc
                      /\ UNCHANGED cur
       ELSE /\ UNCHANGED <<calls, cur, switchTemperature, gpusTemperature>>
            /\ pc' = "append_gpu"
    /\ UNCHANGED <<lib, kill_now, gpuVars, switchGPU, switchVRAM,
                   gpusUtilization, gpusVRAM, deviceIndex, gpusLocal,
                   mainVars, returned, tick, lenAtSignal>>

\* getStatus: gpus.append({...}) and the next loop index.
AppendGpu ==
    /\ pc = "append_gpu"
    /\ gpusLocal' = Append(gpusLocal, cur)
    /\ deviceIndex' = deviceIndex + 1
    /\ pc' = "dev_loop"
    /\ UNCHANGED <<lib, kill_now, gpuVars, flagVars, cur, mainVars,
                   histVars, lenAtSignal>>

\* getStatus: return {...}; main: status = gpu_info.getStatus()
Return ==
    /\ pc = "return"
    /\ status' = [device_type |-> "", gpus |-> gpusLocal]
    /\ returned' = Append(returned, status')
    /\ pc' = "append"
    /\ UNCHANGED <<lib, kill_now, gpuVars, flagVars, localVars, results,
                   stdout, file, writes, calls, tick, lenAtSignal>>

\* results.append(status)
AppendResult ==
    /\ pc = "append"
    /\ results' = ResultsAppend(results, status)
    /\ pc' = "print"
    /\ UNCHANGED <<lib, kill_now, gpuVars, flagVars, localVars, status,
                   stdout, file, writes, histVars, lenAtSignal>>

\* print(status)
StdoutWrite ==
    /\ pc = "print"
    /\ stdout' = Append(stdout, status)
    /\ pc' = "sleep"
    /\ UNCHANGED <<lib, kill_now, gpuVars, flagVars, localVars, status,
                   results, file, writes, histVars, lenAtSignal>>

\* time.sleep(1)
Sleep ==
    /\ pc = "sleep"
    /\ pc' = "loop_test"
    /\ UNCHANGED <<lib, kill_now, gpuVars, flagVars, localVars, mainVars,
                   histVars, lenAtSignal>>

\* with open("status.json", "w") as f: json.dump(results, f, indent=4)
WriteFile ==
    /\ pc = "write"
    /\ file' = [exists |-> TRUE, content |-> JsonDump(results)]
    /\ writes' = writes + 1
    /\ pc' = "done"
    /\ UNCHANGED <<lib, kill_now, gpuVars, flagVars, localVars, status,
                   results, stdout, histVars, lenAtSignal>>

\* ------------------------------------------------- reading the histories
Guarded == {"utilization", "temperature"}

\* The field of a gpus entry that holds metric m.
FieldOf(e, m) ==
    IF m = "utilization" THEN e.gpu_utilization
    ELSE IF m = "temperature" THEN e.gpu_temperature
    ELSE e.vram_used

\* Positions in calls of the failed queries of the guarded metrics.
GuardedFailures ==
    {i \in DOMAIN calls : calls[i].metric \in Guarded /\ ~calls[i].ok}

\* Metric m failed on some device before getStatus reached device d in tick t.
FailedBefore(m, t, d) ==
    \E j \in DOMAIN calls :
        /\ calls[j].metric = m /\ ~calls[j].ok
        /\ \/ calls[j].tick < t
           \/ calls[j].tick = t /\ calls[j].dev < d

\* The query of metric m on device d in tick t was made.
Queried(m, t, d) ==
    \E j \in DOMAIN calls :
        calls[j].metric = m /\ calls[j].tick = t /\ calls[j].dev = d

\* The query of m on d in tick t was made, succeeded and returned v.
QueriedValue(m, t, d, v) ==
    \E j \in DOMAIN calls :
        /\ calls[j].metric = m /\ calls[j].tick = t /\ calls[j].dev = d
        /\ calls[j].ok /\ calls[j].val = v

\* A flag is off only after a failed query of its own metric.
OnlyOwnFailureDisables ==
    /\ switchVRAM
    /\ \A i \in DOMAIN gpusUtilization : gpusUtilization[i]
    /\ \A i \in DOMAIN gpusVRAM : gpusVRAM[i]
    /\ \A i \in DOMAIN gpusTemperature : gpusTemperature[i]
    /\ ~switchGPU =>
          \E j \in DOMAIN calls : calls[j].metric = "utilization" /\ ~calls[j].ok
    /\ ~switchTemperature =>
          \E j \in DOMAIN calls : calls[j].metric = "temperature" /\ ~calls[j].ok

\* --------------------------------------------------------------- claims

\* C1: once the utilization or temperature query has failed on device d in
\* tick t, that query is never made again for d, and in every Sample
\* returned in a later tick the field of that metric for d is 0.
C1_DisabledAfterFailure ==
    \A i \in GuardedFailures :
        /\ \A j \in DOMAIN calls :
              j > i => ~(calls[j].metric = calls[i].metric /\ calls[j].dev = calls[i].dev)
        /\ \A t \in DOMAIN returned :
              t > calls[i].tick =>
                 FieldOf(returned[t].gpus[calls[i].dev + 1], calls[i].metric) = 0

\* A query failed in tick 1 and a Sample of a later tick was returned.
C1_Witness ==
    /\ Len(returned) >= 2
    /\ \E i \in GuardedFailures : calls[i].tick = 1 /\ calls[i].metric = "utilization"
    /\ \E i \in GuardedFailures : calls[i].tick = 1 /\ calls[i].metric = "temperature"

\* C2: a failure of a guarded metric on device d leaves the other
\* devices alone: a device on which that query never failed is still queried
\* in the tick of the failure and in every later tick, and its field holds
\* the queried value.
C2_OtherDevicesUnaffected ==
    \A i \in GuardedFailures :
        \A d2 \in 0..(cudaDevicesFound - 1) :
            (/\ d2 # calls[i].dev
             /\ ~\E j \in GuardedFailures :
                    calls[j].metric = calls[i].metric /\ calls[j].dev = d2)
            => \A t \in DOMAIN returned :
                  t >= calls[i].tick =>
                     QueriedValue(calls[i].metric, t, d2,
                                  FieldOf(returned[t].gpus[d2 + 1], calls[i].metric))

\* What a failed guarded query leaves in place: no flag of another metric is
\* turned off; once the entry of the device of the failure exists, each other
\* metric of that device was queried in that tick unless it was already
\* disabled, and its field holds the result; a returned Sample of that tick
\* has an entry for every device and is the one appended to the history.
C3_Isolation ==
    /\ OnlyOwnFailureDisables
    /\ pc \in {"print", "sleep", "loop_test", "write", "done"} => results = returned
    /\ \A i \in GuardedFailures :
          LET t == calls[i].tick
              d == calls[i].dev
              have == Len(returned) >= t \/ Len(gpusLocal) > d
              e == IF Len(returned) >= t THEN returned[t].gpus[d + 1]
                   ELSE gpusLocal[d + 1]
          IN /\ have =>
                  \A m2 \in {"utilization", "vram", "temperature"} \ {calls[i].metric} :
                      IF m2 # "vram" /\ FailedBefore(m2, t, d)
                      THEN ~Queried(m2, t, d) /\ FieldOf(e, m2) = 0
                      ELSE /\ Queried(m2, t, d)
                           /\ \/ QueriedValue(m2, t, d, FieldOf(e, m2))
                              \/ m2 # "vram" /\ FieldOf(e, m2) = 0
             /\ Len(returned) >= t => Len(returned[t].gpus) = cudaDevicesFound
             /\ Len(results) >= t => results[t] = returned[t]

\* C3: a tick in which a guarded query failed is never aborted
\* (its Sample is returned and appended), and the rest of C3_Isolation.
C3_FailureTickCompletes ==
    /\ C3_Isolation
    /\ \A i \in GuardedFailures : ~(pc = "crashed" /\ tick = calls[i].tick)

\* C4: every enable flag, once false, stays false.
C4_FlagsMonotone ==
    [][ /\ ~switchGPU => ~switchGPU'
        /\ ~switchVRAM => ~switchVRAM'
        /\ ~switchTemperature => ~switchTemperature'
        /\ \A i \in DOMAIN gpusUtilization :
              ~gpusUtilization[i] => i \in DOMAIN gpusUtilization' /\ ~gpusUtilization'[i]
        /\ \A i \in DOMAIN gpusVRAM :
              ~gpusVRAM[i] => i \in DOMAIN gpusVRAM' /\ ~gpusVRAM'[i]
        /\ \A i \in DOMAIN gpusTemperature :
              ~gpusTemperature[i] => i \in DOMAIN gpusTemperature' /\ ~gpusTemperature'[i]
      ]_vars

\* Both switches went off in tick 1 and a later tick has run to its end.
C4_Witness ==
    /\ ~switchGPU /\ ~switchTemperature
    /\ \E i \in GuardedFailures : calls[i].tick = 1 /\ calls[i].metric = "utilization"
    /\ \E i \in GuardedFailures : calls[i].tick = 1 /\ calls[i].metric = "temperature"
    /\ Len(results) >= 2

\* C5: every Sample returned by getStatus has one entry per enumerated
\* device, and entry i is the one of device i: its VRAM fields are those the
\* library reported for device i in that tick.
C5_OneEntryPerDevice ==
    \A t \in DOMAIN returned :
        /\ Len(returned[t].gpus) = Len(gpus)
        /\ Len(returned[t].gpus) = IF lib.initOk THEN lib.count ELSE 0
        /\ \A d \in 0..(Len(gpus) - 1) :
              /\ gpus[d + 1].index = d
              /\ returned[t].gpus[d + 1].vram_total = VramTotalOf(d)
              /\ QueriedValue("vram", t, d, returned[t].gpus[d + 1].vram_used)

\* Two devices, two Samples returned, utilization and temperature disabled.
C5_Witness ==
    /\ Len(gpus) = 2
    /\ Len(returned) >= 2
    /\ ~switchGPU /\ ~switchTemperature
    /\ Len(returned[2].gpus) = 2

\* C6: when nvmlInit fails or no device is found, construction completes,
\* no metric query is ever made, every Sample is {device_type: "", gpus: []},
\* and the loop is left only after a signal.
C6_EmptyDeviceMode ==
    (~lib.initOk \/ lib.count = 0) =>
        /\ pc # "crashed"
        /\ calls = <<>>
        /\ \A t \in DOMAIN returned : returned[t] = [device_type |-> "", gpus |-> <<>>]
        /\ \A t \in DOMAIN results : results[t] = [device_type |-> "", gpus |-> <<>>]
        /\ pc \in {"write", "done"} => kill_now
        /\ pc \in {"print", "sleep", "loop_test", "write", "done"} => Len(results) = tick

\* nvmlInit failed on a machine with devices and two ticks have completed.
C6_Witness ==
    /\ ~lib.initOk /\ lib.count > 0
    /\ Len(results) >= 2
    /\ pc = "loop_test"

\* C7: after a clean shutdown status.json holds exactly the Samples returned
\* by the getStatus calls, one per tick, in call order.
C7_FileIsHistory ==
    pc = "done" =>
        /\ file.exists
        /\ Len(returned) = tick
        /\ JsonLoad(file.content) = returned

\* Clean shutdown after two ticks of a two-device run with different
\* Samples; the file gives back the floats 50.0 and 33.33333333333333.
C7_Witness ==
    /\ pc = "done"
    /\ tick = 2
    /\ cudaDevicesFound = 2
    /\ returned[1] # returned[2]
    /\ Len(JsonLoad(file.content)) = 2
    /\ JsonLoad(file.content)[1].gpus[1].vram_used_percent
          = PyFloat(<<1, 9>>, 5)
    /\ LET x == JsonLoad(file.content)[1].gpus[2].vram_used_percent IN
          x = PyFloat(<<1, 0, 10, 10, 10, 10, 10, 10, 10, 10, 10, 10, 10, 10>>, 5)

\* C8: kill_now never returns to false; the signal leaves the position of the
\* main program alone; once the loop test has seen the flag no tick starts;
\* the loop is left only with every started tick appended; at most one Sample
\* is appended after the first signal.
C8_GracefulStop ==
    [][ /\ kill_now => kill_now'
        /\ (~kill_now /\ kill_now') => (pc' = pc /\ results' = results /\ tick' = tick)
        /\ (pc = "loop_test" /\ kill_now) => pc' \in {"loop_test", "write"}
        /\ pc \in {"write", "done"} => (pc' \in {"write", "done"} /\ tick' = tick)
        /\ tick' # tick => pc = "get_status"
        /\ (pc' = "get_status" /\ pc # "get_status") => (pc = "loop_test" /\ ~kill_now)
        /\ pc' \in {"write", "done"} => (kill_now' /\ Len(results') = tick')
        /\ lenAtSignal' # -1 => (kill_now' /\ Len(results') <= lenAtSignal' + 1)
      ]_vars

\* The signal arrived during tick 2 and the Sample of tick 2 was appended
\* before the loop was left.
C8_Witness ==
    /\ pc = "done"
    /\ lenAtSignal = 1
    /\ Len(results) = 2
    /\ cudaDevicesFound >= 1

\* C9: a failed VRAM query ends the program where it stands: nothing is
\* queried after it, no Sample is returned or appended for that tick, no flag
\* is changed by it, and status.json is not written.
C9_VramFailureIsFatal ==
    \A i \in DOMAIN calls :
        (calls[i].metric = "vram" /\ ~calls[i].ok) =>
            /\ pc = "crashed"
            /\ i = Len(calls)
            /\ Len(returned) = calls[i].tick - 1
            /\ Len(results) = calls[i].tick - 1
            /\ OnlyOwnFailureDisables
            /\ file = NoFile /\ writes = 0

\* The VRAM query failed in tick 2; the Sample of tick 1 is in the history
\* and no file exists.
C9_Witness ==
    /\ pc = "crashed"
    /\ Len(results) = 1
    /\ calls # <<>>
    /\ calls[Len(calls)].metric = "vram" /\ ~calls[Len(calls)].ok
    /\ calls[Len(calls)].tick = 2

\* C10: status.json is written at most once, only after the loop was left
\* on the shutdown flag; while the loop runs, and as long as no signal has
\* arrived, the file does not exist.
C10_WrittenOnceAtExit ==
    /\ writes <= 1
    /\ file.exists <=> writes = 1
    /\ file.exists => (pc = "done" /\ kill_now)
    /\ pc # "done" => file = NoFile
    /\ ~kill_now => file = NoFile

\* The file was written after a run in which utilization and temperature
\* had failed.
C10_Witness ==
    /\ file.exists /\ writes = 1
    /\ ~switchGPU /\ ~switchTemperature
    /\ Len(results) >= 1

\* The positions of the main program inside the while loop.
LoopPcs ==
    {"loop_test", "get_status", "dev_loop", "query_util", "query_vram",
     "query_temp", "append_gpu", "return", "append", "print", "sleep"}

\* C11: a signal delivered while the loop runs leads to the loop being left
\* and status.json being written, unless a VRAM query fails on the way (the
\* program then ends without a file).
C11_ShutdownCompletes ==
    (kill_now /\ pc \in LoopPcs) ~> ((pc = "done" /\ file.exists) \/ pc = "crashed")

\* The first signal arrived during tick 1, the tick was completed and the
\* file was written.
C11_Witness ==
    /\ pc = "done" /\ file.exists
    /\ lenAtSignal = 0
    /\ Len(results) = 1
    /\ cudaDevicesFound >= 1

\* C13: the default -1 is never emitted: every field of every gpus entry of
\* a returned Sample is the value the library returned for that device in
\* that tick, or 0 when the query was not made or failed; without library
\* or devices the Sample has no entries.  Each Sample is examined in the
\* state in which getStatus has just returned it.
C13_NoDefaultEmitted ==
    \A t \in (IF pc = "append" THEN {Len(returned)} ELSE {}) :
        /\ ~(pynvmlLoaded /\ cuda) => returned[t].gpus = <<>>
        /\ \A k \in DOMAIN returned[t].gpus :
              LET e == returned[t].gpus[k] IN
              /\ \A m \in Guarded :
                    IF QueriedValue(m, t, k - 1, FieldOf(e, m)) THEN TRUE
                    ELSE /\ FieldOf(e, m) = 0
                         /\ \A j \in DOMAIN calls :
                               (calls[j].metric = m /\ calls[j].tick = t
                                  /\ calls[j].dev = k - 1) => ~calls[j].ok
              /\ QueriedValue("vram", t, k - 1, e.vram_used)
              /\ e.vram_total = VramTotalOf(k - 1)
              /\ e.vram_used_percent = VramPercentOf[k - 1][e.vram_used]
              /\ e.gpu_utilization # -1 /\ e.gpu_temperature # -1
              /\ e.vram_total # -1 /\ e.vram_used # -1
              /\ e.vram_used_percent # PyInt(-1)

\* A Sample with a device whose utilization was skipped (disabled in an
\* earlier tick) and whose temperature failed in this tick.
C13_Witness ==
    /\ Len(returned) >= 2
    /\ cudaDevicesFound >= 1
    /\ ~Queried("utilization", 2, 0)
    /\ \E i \in GuardedFailures :
          calls[i].tick = 2 /\ calls[i].dev = 0 /\ calls[i].metric = "temperature"
    /\ returned[2].gpus[1].gpu_utilization = 0
    /\ returned[2].gpus[1].gpu_temperature = 0

\* C14: the history only grows, by one Sample at the end per loop iteration
\* (the one getStatus returned), earlier Samples stay as they are, and
\* between ticks its length is the number of ticks.
C14_AppendOnly ==
    [][ /\ results' # results =>
              /\ pc = "append" /\ pc' = "print"
              /\ Len(results') = Len(results) + 1
              /\ SubSeq(results', 1, Len(results)) = results
              /\ results'[Len(results')] = returned[Len(returned)]
        /\ pc' \in {"print", "sleep", "loop_test", "write", "done"} =>
              Len(results') = tick'
        /\ pc' \in {"get_status", "dev_loop", "query_util", "query_vram",
                     "query_temp", "append_gpu", "return", "append"} =>
              Len(results') = tick' - (IF pc' = "get_status" THEN 0 ELSE 1)
      ]_vars

\* Two ticks completed with different Samples, the first still in place.
C14_Witness ==
    /\ Len(results) = 2
    /\ tick = 2
    /\ results[1] # results[2]
    /\ results[1] = returned[1]
    /\ pc = "sleep"

\* C15: the delivery of a signal sets kill_now and changes nothing else of
\* the program (history, flags, device list, console, file, position); a
\* delivery when kill_now is already set changes nothing at all.
C15_SignalOnlySetsFlag ==
    [][ /\ Signal =>
              /\ kill_now'
              /\ UNCHANGED <<lib, pc, gpuVars, flagVars, localVars, mainVars, histVars>>
        /\ (Signal /\ kill_now) => UNCHANGED vars
        /\ kill_now' # kill_now =>
              UNCHANGED <<lib, pc, gpuVars, flagVars, localVars, mainVars, histVars>>
      ]_vars

\* The signal was delivered in the middle of a tick of a run with a
\* non-empty history and one switch off, and the program went on.
C15_Witness ==
    /\ kill_now
    /\ lenAtSignal = 1
    /\ ~switchGPU
    /\ Len(gpus) >= 1
    /\ pc = "query_temp"
    /\ tick = 2
    /\ file = NoFile

\* C17: after enumeration the device list and the per-device flag arrays
\* are never changed and all their entries stay true; switchVRAM is never
\* changed; a failed utilization (temperature) query changes, of the state
\* of the instance, only switchGPU (switchTemperature).
C17_OnlySwitchesChange ==
    [][ /\ switchVRAM /\ switchVRAM'
        /\ \A i \in DOMAIN gpusUtilization' :
              gpusUtilization'[i] /\ gpusVRAM'[i] /\ gpusTemperature'[i]
        /\ pc # "construct" =>
              UNCHANGED <<gpus, gpusUtilization, gpusVRAM, gpusTemperature,
                          pynvmlLoaded, cuda, cudaDevicesFound>>
        /\ switchGPU' # switchGPU =>
              /\ pc = "query_util" /\ ~switchGPU'
              /\ calls' = Append(calls, Call(deviceIndex, "utilization", Failure))
              /\ UNCHANGED switchTemperature
        /\ switchTemperature' # switchTemperature =>
              /\ pc = "query_temp" /\ ~switchTemperature'
              /\ calls' = Append(calls, Call(deviceIndex, "temperature", Failure))
              /\ UNCHANGED switchGPU
        /\ (calls' # calls /\ ~calls'[Len(calls')].ok) =>
              UNCHANGED <<cur, gpusLocal, deviceIndex, results, status, file>>
      ]_vars

\* Both guarded queries failed on the second device; the arrays are intact.
C17_Witness ==
    /\ Len(gpusUtilization) = 2
    /\ ~switchGPU /\ ~switchTemperature
    /\ \E i \in GuardedFailures : calls[i].dev = 1 /\ calls[i].metric = "utilization"
    /\ \E i \in GuardedFailures : calls[i].dev = 1 /\ calls[i].metric = "temperature"
    /\ gpusUtilization = <<TRUE, TRUE>> /\ gpusTemperature = <<TRUE, TRUE>>
    /\ Len(returned) >= 1

\* The name a run must store for a device, by what the library does when
\* the name is read.
NameFor(o) ==
    IF o.kind = "unicode_error" THEN UnknownGPUDecodingError
    ELSE IF o.kind = "bytes" THEN DecodeIgnore(o.val)
    ELSE o.val

\* C12: the enumerated list is a function of what the library reports (its
\* count and its names) and of nothing else, so two runs against the same
\* reports end with the same list; position i holds index i, for 0..N-1.
C12_EnumerationDeterministic ==
    cuda =>
        /\ Len(gpus) = lib.count
        /\ cudaDevicesFound = lib.count
        /\ \A i \in 0..(lib.count - 1) :
              gpus[i + 1] = [index |-> i, name |-> NameFor(lib.names[i])]

\* Two devices enumerated, with different names, and the loop has run since.
C12_Witness ==
    /\ cuda
    /\ Len(gpus) = 2
    /\ gpus[1].index = 0 /\ gpus[2].index = 1
    /\ gpus[1].name # gpus[2].name
    /\ Len(results) >= 1

\* C16: no failure to read or decode a name fails enumeration:
\* construction ends with one entry per device, and the entry of a device
\* whose name could not be obtained has a placeholder name.
C16_NameFailureNeverFails ==
    (pc # "construct" /\ lib.initOk /\ lib.count > 0) =>
        /\ cuda
        /\ Len(gpus) = lib.count
        /\ \A i \in 0..(lib.count - 1) :
              /\ gpus[i + 1].index = i
              /\ lib.names[i].kind \in {"unicode_error", "nvml_error"} =>
                    gpus[i + 1].name = UnknownGPUDecodingError

\* C18: in a process that constructs any number of GPUInfo objects, gpus and
\* the three flag lists have the same length, that length is the
\* cudaDevicesFound of the constructed object, and every index getStatus
\* uses is within the lists.
C18_ListsMatchDeviceCount ==
    pc \notin {"construct", "crashed"} =>
        /\ Len(gpus) = Len(gpusUtilization)
        /\ Len(gpus) = Len(gpusVRAM)
        /\ Len(gpus) = Len(gpusTemperature)
        /\ Len(gpus) = cudaDevicesFound
        /\ pc \in {"query_util", "query_vram", "query_temp", "append_gpu"} =>
              deviceIndex + 1 \in DOMAIN gpusUtilization

\* ------------------------------------------------------------------ Next
Next ==
    \/ Signal
    \/ GPUInfoInit
    \/ LoopTest
    \/ GetStatusBegin
    \/ DeviceLoop
    \/ QueryUtilization
    \/ QueryVRAM
    \/ QueryTemperature
    \/ AppendGpu
    \/ Return
    \/ AppendResult
    \/ StdoutWrite
    \/ Sleep
    \/ WriteFile

Spec == Init /\ [][Next]_vars

\* A program that constructs a further GPUInfo between two ticks and goes on
\* with the new object: its instance attributes start from the class
\* defaults (lines 15-20), the lists of the class are what they are.
NewInstance ==
    /\ pc = "loop_test"
    /\ instances < MaxInstances
    /\ pc' = "construct"
    /\ pynvmlLoaded' = FALSE /\ cuda' = FALSE /\ cudaDevicesFound' = 0
    /\ switchGPU' = TRUE /\ switchVRAM' = TRUE /\ switchTemperature' = TRUE
    /\ UNCHANGED <<lib, kill_now, instances, gpus, gpusUtilization, gpusVRAM,
                   gpusTemperature, localVars, mainVars, histVars, lenAtSignal>>

NextMulti ==
    \/ Next
    \/ NewInstance

SpecMulti == Init /\ [][NextMulti]_vars

\* The steps of the main program (everything but the delivery of a signal).
\* The interpreter runs the next statement whenever there is one, and every
\* library query returns (with a value or an exception).
ProgramStep ==
    \/ GPUInfoInit
    \/ LoopTest
    \/ GetStatusBegin
    \/ DeviceLoop
    \/ QueryUtilization
    \/ QueryVRAM
    \/ QueryTemperature
    \/ AppendGpu
    \/ Return
    \/ AppendResult
    \/ StdoutWrite
    \/ Sleep
    \/ WriteFile

SpecLive == Init /\ [][Next]_vars /\ WF_vars(ProgramStep)
====
